---- MODULE Spec2Model ----
(***************************************************************************)
(* A model of fxa.oauth.Client (src/fxa/oauth.py): the client for the      *)
(* Firefox Accounts OAuth server.                                          *)
(*                                                                         *)
(* Python values are tagged records: None, Str(s) with s a sequence of     *)
(* one-character strings, List(l) with l a sequence of such sequences.     *)
(* Every public method is one action: it draws the arguments and the       *)
(* transport's reply, runs the whole method body and records the requests  *)
(* it issued and how it ended (a returned value or a raised exception).    *)
(***************************************************************************)
EXTENDS Naturals, Sequences, FiniteSets, TLC

VARIABLES self, constructed, call, requests, outcome

vars == <<self, constructed, call, requests, outcome>>

----------------------------------------------------------------------------
(* Bounds of the model *)

\* the most tokens in a scope value (a list of scopes or a scope string)
MaxTokens == 2

\* the most "&"-separated fields in the query string of a redirect URL
MaxPairs == 2

----------------------------------------------------------------------------
(* Python values *)

None == [t |-> "None"]

Str(s) == [t |-> "str", v |-> s]

List(l) == [t |-> "list", v |-> l]

IsNone(x) == x.t = "None"

----------------------------------------------------------------------------
(* Strings: sequences of characters *)

\* the sequences over S of length at most n
SeqsUpTo(S, n) == UNION {[1..k -> S] : k \in 0..n}

\* str.find: the first index of character c in s, 0 when there is none
Find(s, c) ==
  IF \E i \in 1..Len(s) : s[i] = c
  THEN CHOOSE i \in 1..Len(s) : s[i] = c /\ \A j \in 1..(i - 1) : s[j] # c
  ELSE 0

\* str.split(c): the pieces between the occurrences of c, empty ones kept
RECURSIVE Split(_, _)
Split(s, c) ==
  LET i == Find(s, c)
  IN IF i = 0 THEN <<s>>
     ELSE <<SubSeq(s, 1, i - 1)>> \o Split(SubSeq(s, i + 1, Len(s)), c)

\* sep.join(parts)
RECURSIVE Join(_, _)
Join(parts, sep) ==
  IF parts = <<>> THEN <<>>
  ELSE IF Len(parts) = 1 THEN parts[1]
  ELSE parts[1] \o sep \o Join(Tail(parts), sep)

StartsWith(s, p) == Len(p) <= Len(s) /\ SubSeq(s, 1, Len(p)) = p

EndsWith(s, p) ==
  Len(p) <= Len(s) /\ SubSeq(s, Len(s) - Len(p) + 1, Len(s)) = p

\* str.split(c, 1): split at the first occurrence of c only
Split1(s, c) ==
  LET i == Find(s, c)
  IN IF i = 0 THEN <<s>>
     ELSE <<SubSeq(s, 1, i - 1), SubSeq(s, i + 1, Len(s))>>

\* str.split(): the maximal runs of non-blank characters
SplitWs(s) == SelectSeq(Split(s, " "), LAMBDA w : w # <<>>)

\* str.replace(a, b) for single characters
Replace(s, a, b) == [i \in 1..Len(s) |-> IF s[i] = a THEN b ELSE s[i]]

----------------------------------------------------------------------------
(* urllib.parse, as the source uses it.  The characters of the model are   *)
(* letters, digits, "_", ".", "-" (never escaped), the blank, and the      *)
(* reserved characters below with their percent escapes.                   *)

Reserved == {":", "/", "?", "#", "&", "=", "+", "@", "%"}

\* the two hexadecimal digits of a reserved character, or of the blank
Hex(c) ==
  CASE c = ":" -> <<"3", "A">>
    [] c = "/" -> <<"2", "F">>
    [] c = "?" -> <<"3", "F">>
    [] c = "#" -> <<"2", "3">>
    [] c = "&" -> <<"2", "6">>
    [] c = "=" -> <<"3", "D">>
    [] c = "+" -> <<"2", "B">>
    [] c = "@" -> <<"4", "0">>
    [] c = "%" -> <<"2", "5">>
    [] c = " " -> <<"2", "0">>

\* quote_plus(s): the blank becomes "+", a reserved character its escape
RECURSIVE quote_plus(_)
quote_plus(s) ==
  IF s = <<>> THEN <<>>
  ELSE (IF Head(s) = " " THEN <<"+">>
        ELSE IF Head(s) \in Reserved THEN <<"%">> \o Hex(Head(s))
        ELSE <<Head(s)>>) \o quote_plus(Tail(s))

\* unquote(s): every well-formed escape becomes its character, anything
\* else stays as it is
RECURSIVE unquote(_)
unquote(s) ==
  IF s = <<>> THEN <<>>
  ELSE IF /\ Head(s) = "%"
          /\ Len(s) >= 3
          /\ \E c \in Reserved \cup {" "} : Hex(c) = <<s[2], s[3]>>
  THEN <<CHOOSE c \in Reserved \cup {" "} : Hex(c) = <<s[2], s[3]>> >>
       \o unquote(SubSeq(s, 4, Len(s)))
  ELSE <<Head(s)>> \o unquote(Tail(s))

\* str(v) of an argument: the text itself, or "None"
str(v) == IF IsNone(v) THEN <<"N", "o", "n", "e">> ELSE v.v

\* urlencode(params): params is the dict as the sequence of its items, in
\* insertion order (the iteration order of a dict since Python 3.7)
urlencode(params) ==
  Join([i \in 1..Len(params) |->
          quote_plus(params[i][1]) \o <<"=">> \o quote_plus(str(params[i][2]))],
       <<"&">>)

\* urlparse(url): the fragment is what follows the first "#", the query
\* what follows the first "?" before it; scheme, netloc, path and params
\* are kept together as prefix (urlunparse joins them back unchanged)
urlparse(url) ==
  LET f == Find(url, "#")
      nofrag == IF f = 0 THEN url ELSE SubSeq(url, 1, f - 1)
      q == Find(nofrag, "?")
  IN [prefix |-> IF q = 0 THEN nofrag ELSE SubSeq(nofrag, 1, q - 1),
      query |-> IF q = 0 THEN <<>> ELSE SubSeq(nofrag, q + 1, Len(nofrag)),
      fragment |-> IF f = 0 THEN <<>> ELSE SubSeq(url, f + 1, Len(url))]

\* urlunparse(parts): an empty query or fragment is left out
urlunparse(parts) ==
  parts.prefix
  \o (IF parts.query = <<>> THEN <<>> ELSE <<"?">> \o parts.query)
  \o (IF parts.fragment = <<>> THEN <<>> ELSE <<"#">> \o parts.fragment)

\* parse_qsl(qs): the (name, value) pairs of the "&"-separated fields ("&"
\* is the only separator since Python 3.10); an
\* empty field, a field without "=" and a field with an empty value are
\* dropped (keep_blank_values and strict_parsing are off)
parse_qsl(qs) ==
  LET fields == Split(qs, "&")
      nv(f) == Split1(f, "=")
      kept == SelectSeq(fields, LAMBDA f : /\ f # <<>>
                                           /\ Len(nv(f)) = 2
                                           /\ Len(nv(f)[2]) > 0)
  IN [i \in 1..Len(kept) |->
        <<unquote(Replace(nv(kept[i])[1], "+", " ")),
          unquote(Replace(nv(kept[i])[2], "+", " "))>>]

\* parse_qs(qs): the dict from each name to the list of its values
parse_qs(qs) ==
  LET pairs == parse_qsl(qs)
      named(n) == SelectSeq(pairs, LAMBDA p : p[1] = n)
  IN [n \in {pairs[i][1] : i \in 1..Len(pairs)} |->
        [i \in 1..Len(named(n)) |-> named(n)[i][2]]]

----------------------------------------------------------------------------
(* String literals of the source *)

DEFAULT_SERVER_URL ==
  <<"h","t","t","p","s",":","/","/","o","a","u","t","h",".","a","c","c","o",
    "u","n","t","s",".","f","i","r","e","f","o","x",".","c","o","m">>

AccessTokenMissing ==
  <<"a","c","c","e","s","s","_","t","o","k","e","n"," ","m","i","s","s","i",
    "n","g"," ","i","n"," ","O","A","u","t","h"," ","r","e","s","p","o","n",
    "s","e">>

RedirectMissing ==
  <<"r","e","d","i","r","e","c","t"," ","m","i","s","s","i","n","g"," ","i",
    "n"," ","O","A","u","t","h"," ","r","e","s","p","o","n","s","e">>

CodeMissing ==
  <<"c","o","d","e"," ","m","i","s","s","i","n","g"," ","i","n"," ","O","A",
    "u","t","h"," ","r","e","d","i","r","e","c","t"," ","u","r","l">>

\* the tail of verify_token's message, after the names of the fields
MissingSuffix ==
  <<" ","m","i","s","s","i","n","g"," ","i","n"," ","O","A","u","t","h"," ",
    "r","e","s","p","o","n","s","e">>

AuthorizationPath ==
  <<"/","v","1","/","a","u","t","h","o","r","i","z","a","t","i","o","n">>

k_code == <<"c","o","d","e">>
k_state == <<"s","t","a","t","e">>
k_client_id == <<"c","l","i","e","n","t","_","i","d">>
k_redirect_uri == <<"r","e","d","i","r","e","c","t","_","u","r","i">>
k_scope == <<"s","c","o","p","e">>
k_action == <<"a","c","t","i","o","n">>
k_email == <<"e","m","a","i","l">>
k_user == <<"u","s","e","r">>

\* the characters of a key of the verification response
KeyText(k) ==
  CASE k = "user" -> k_user
    [] k = "scope" -> k_scope
    [] k = "client_id" -> k_client_id

----------------------------------------------------------------------------
(* Outcomes of a method and of the transport *)

Return(v) == [kind |-> "return", value |-> v]

Raise(e, a) == [kind |-> "raise", exc |-> e, args |-> a]

\* what a method did: the configuration it leaves, the requests it issued
\* and how it ended
Result(slf, reqs, out) == [self |-> slf, requests |-> reqs, outcome |-> out]

\* the failures the transport adapter raises
TransportErrors == {"ClientError", "ServerError", "ConnectionError"}

Failed(e) == [ok |-> FALSE, err |-> e]

Replied(r) == [ok |-> TRUE, resp |-> r]

\* APIClient.post(url, body): the request as issued, with the reply it got
post(url, body, reply) ==
  [method |-> "POST", url |-> url, body |-> body, reply |-> reply]

----------------------------------------------------------------------------
(* Client.__init__ *)

Client(client_id, client_secret, server_url) ==
  [client_id |-> client_id,
   client_secret |-> client_secret,
   server_url |-> IF IsNone(server_url) THEN DEFAULT_SERVER_URL
                  ELSE server_url.v]

----------------------------------------------------------------------------
(* Client.trade_code *)

\* trade_code without the check of the response: resp.get("access_token")
trade_code_unchecked(slf, code, client_id_arg, client_secret_arg, reply) ==
  LET client_id == IF IsNone(client_id_arg) THEN slf.client_id
                   ELSE client_id_arg
      client_secret == IF IsNone(client_secret_arg) THEN slf.client_secret
                       ELSE client_secret_arg
      body == [code |-> code, client_id |-> client_id,
               client_secret |-> client_secret]
      sent == post("/v1/token", body, reply)
  IN IF ~reply.ok
     THEN Result(slf, <<sent>>, Raise(reply.err, <<>>))
     ELSE IF "access_token" \notin DOMAIN reply.resp
     THEN Result(slf, <<sent>>, Return(None))
     ELSE Result(slf, <<sent>>, Return(reply.resp["access_token"]))

trade_code(slf, code, client_id_arg, client_secret_arg, reply) ==
  LET client_id == IF IsNone(client_id_arg) THEN slf.client_id
                   ELSE client_id_arg
      client_secret == IF IsNone(client_secret_arg) THEN slf.client_secret
                       ELSE client_secret_arg
      url == "/v1/token"
      body == [code |-> code, client_id |-> client_id,
               client_secret |-> client_secret]
      sent == post(url, body, reply)
  IN IF ~reply.ok
     THEN Result(slf, <<sent>>, Raise(reply.err, <<>>))
     ELSE IF "access_token" \notin DOMAIN reply.resp
     THEN Result(slf, <<sent>>,
                 Raise("OutOfProtocolError", <<Str(AccessTokenMissing)>>))
     ELSE Result(slf, <<sent>>, Return(reply.resp["access_token"]))

----------------------------------------------------------------------------
(* Client.authorize_code *)

\* authorize_code asking a second time when the response has no redirect
authorize_code_again(slf, assertion, scope, client_id_arg, reply) ==
  LET client_id == IF IsNone(client_id_arg) THEN slf.client_id
                   ELSE client_id_arg
      body == IF IsNone(scope)
              THEN [client_id |-> client_id, assertion |-> assertion,
                    state |-> Str(<<"x">>)]
              ELSE [client_id |-> client_id, assertion |-> assertion,
                    state |-> Str(<<"x">>), scope |-> scope]
      sent == post("/v1/authorization", body, reply)
      query_params == parse_qs(urlparse(reply.resp["redirect"].v).query)
  IN IF ~reply.ok
     THEN Result(slf, <<sent>>, Raise(reply.err, <<>>))
     ELSE IF "redirect" \notin DOMAIN reply.resp
     THEN Result(slf, <<sent, sent>>,
                 Raise("OutOfProtocolError", <<Str(RedirectMissing)>>))
     ELSE IF k_code \in DOMAIN query_params /\ Len(query_params[k_code]) >= 1
     THEN Result(slf, <<sent>>, Return(Str(query_params[k_code][1])))
     ELSE Result(slf, <<sent>>,
                 Raise("OutOfProtocolError", <<Str(CodeMissing)>>))

\* authorize_code reading the last value of code: query_params["code"][-1]
authorize_code_last(slf, assertion, scope, client_id_arg, reply) ==
  LET client_id == IF IsNone(client_id_arg) THEN slf.client_id
                   ELSE client_id_arg
      body == IF IsNone(scope)
              THEN [client_id |-> client_id, assertion |-> assertion,
                    state |-> Str(<<"x">>)]
              ELSE [client_id |-> client_id, assertion |-> assertion,
                    state |-> Str(<<"x">>), scope |-> scope]
      sent == post("/v1/authorization", body, reply)
      query_params == parse_qs(urlparse(reply.resp["redirect"].v).query)
  IN IF ~reply.ok
     THEN Result(slf, <<sent>>, Raise(reply.err, <<>>))
     ELSE IF "redirect" \notin DOMAIN reply.resp
     THEN Result(slf, <<sent>>,
                 Raise("OutOfProtocolError", <<Str(RedirectMissing)>>))
     ELSE IF k_code \in DOMAIN query_params /\ Len(query_params[k_code]) >= 1
     THEN Result(slf, <<sent>>,
                 Return(Str(query_params[k_code][Len(query_params[k_code])])))
     ELSE Result(slf, <<sent>>,
                 Raise("OutOfProtocolError", <<Str(CodeMissing)>>))

authorize_code(slf, assertion, scope, client_id_arg, reply) ==
  LET client_id == IF IsNone(client_id_arg) THEN slf.client_id
                   ELSE client_id_arg
      url == "/v1/authorization"
      base == [client_id |-> client_id, assertion |-> assertion,
               state |-> Str(<<"x">>)]
      body == IF IsNone(scope) THEN base
              ELSE [client_id |-> client_id, assertion |-> assertion,
                    state |-> Str(<<"x">>), scope |-> scope]
      sent == post(url, body, reply)
      query_params == parse_qs(urlparse(reply.resp["redirect"].v).query)
  IN IF ~reply.ok
     THEN Result(slf, <<sent>>, Raise(reply.err, <<>>))
     ELSE IF "redirect" \notin DOMAIN reply.resp
     THEN Result(slf, <<sent>>,
                 Raise("OutOfProtocolError", <<Str(RedirectMissing)>>))
     ELSE IF k_code \in DOMAIN query_params /\ Len(query_params[k_code]) >= 1
     THEN Result(slf, <<sent>>, Return(Str(query_params[k_code][1])))
     ELSE Result(slf, <<sent>>,
                 Raise("OutOfProtocolError", <<Str(CodeMissing)>>))

----------------------------------------------------------------------------
(* Client.authorize_token *)

\* authorize_token keeping the client_id of the call: self.client_id = ...
authorize_token_storing(slf, assertion, scope, client_id_arg, reply) ==
  LET client_id == IF IsNone(client_id_arg) THEN slf.client_id
                   ELSE client_id_arg
      body == IF IsNone(scope)
              THEN [client_id |-> client_id, assertion |-> assertion,
                    response_type |-> Str(<<"t","o","k","e","n">>),
                    state |-> Str(<<"x">>)]
              ELSE [client_id |-> client_id, assertion |-> assertion,
                    response_type |-> Str(<<"t","o","k","e","n">>),
                    state |-> Str(<<"x">>), scope |-> scope]
      sent == post("/v1/authorization", body, reply)
      kept == [slf EXCEPT !.client_id = client_id]
  IN IF ~reply.ok
     THEN Result(kept, <<sent>>, Raise(reply.err, <<>>))
     ELSE IF "access_token" \notin DOMAIN reply.resp
     THEN Result(kept, <<sent>>,
                 Raise("OutOfProtocolError", <<Str(AccessTokenMissing)>>))
     ELSE Result(kept, <<sent>>, Return(reply.resp["access_token"]))

authorize_token(slf, assertion, scope, client_id_arg, reply) ==
  LET client_id == IF IsNone(client_id_arg) THEN slf.client_id
                   ELSE client_id_arg
      url == "/v1/authorization"
      body == IF IsNone(scope)
              THEN [client_id |-> client_id, assertion |-> assertion,
                    response_type |-> Str(<<"t","o","k","e","n">>),
                    state |-> Str(<<"x">>)]
              ELSE [client_id |-> client_id, assertion |-> assertion,
                    response_type |-> Str(<<"t","o","k","e","n">>),
                    state |-> Str(<<"x">>), scope |-> scope]
      sent == post(url, body, reply)
  IN IF ~reply.ok
     THEN Result(slf, <<sent>>, Raise(reply.err, <<>>))
     ELSE IF "access_token" \notin DOMAIN reply.resp
     THEN Result(slf, <<sent>>,
                 Raise("OutOfProtocolError", <<Str(AccessTokenMissing)>>))
     ELSE Result(slf, <<sent>>, Return(reply.resp["access_token"]))

----------------------------------------------------------------------------
(* fxa._utils.scope_matches, after section 4.2 of the specification *)

\* a scope value as the set of its tokens: the blank-separated words of a
\* string, the members of a list, nothing otherwise
ScopeSet(x) ==
  IF x.t = "str" THEN {SplitWs(x.v)[i] : i \in 1..Len(SplitWs(x.v))}
  ELSE IF x.t = "list" THEN {x.v[i] : i \in 1..Len(x.v)}
  ELSE {}

\* matching by characters: r.startswith(g)
match_single_scope_prefix(g, r) == StartsWith(r, g)

\* granted token g satisfies requested token r: the "/"-separated segments
\* of g are the first segments of r
match_single_scope(g, r) ==
  LET gs == Split(g, "/")
      rs == Split(r, "/")
  IN Len(gs) <= Len(rs) /\ SubSeq(rs, 1, Len(gs)) = gs

scope_matches(granted, requested) ==
  \A r \in ScopeSet(requested) :
    \E g \in ScopeSet(granted) : match_single_scope(g, r)

----------------------------------------------------------------------------
(* Client.verify_token *)

\* verify_token turning a failure of the transport into a protocol error
verify_token_wrapping(slf, token, scope, reply) ==
  LET sent == post("/v1/verify", [token |-> token], reply)
      resp == reply.resp
      missing == SelectSeq(<<"user", "scope", "client_id">>,
                           LAMBDA k : k \notin DOMAIN resp)
      missing_attrs == Join([i \in 1..Len(missing) |-> KeyText(missing[i])],
                            <<",", " ">>)
  IN IF ~reply.ok
     THEN Result(slf, <<sent>>,
                 Raise("OutOfProtocolError", <<Str(MissingSuffix)>>))
     ELSE IF missing_attrs # <<>>
     THEN Result(slf, <<sent>>,
                 Raise("OutOfProtocolError",
                       <<Str(missing_attrs \o MissingSuffix)>>))
     ELSE IF ~IsNone(scope) /\ ~scope_matches(resp["scope"], scope)
     THEN Result(slf, <<sent>>,
                 Raise("ScopeMismatchError", <<resp["scope"], scope>>))
     ELSE Result(slf, <<sent>>, Return(resp))

\* verify_token checking the scope before the fields, and naming only the
\* first missing field
verify_token_scope_first(slf, token, scope, reply) ==
  LET sent == post("/v1/verify", [token |-> token], reply)
      resp == reply.resp
      missing == SelectSeq(<<"user", "scope", "client_id">>,
                           LAMBDA k : k \notin DOMAIN resp)
  IN IF ~reply.ok
     THEN Result(slf, <<sent>>, Raise(reply.err, <<>>))
     ELSE IF /\ ~IsNone(scope)
             /\ "scope" \in DOMAIN resp
             /\ ~scope_matches(resp["scope"], scope)
     THEN Result(slf, <<sent>>,
                 Raise("ScopeMismatchError", <<resp["scope"], scope>>))
     ELSE IF missing # <<>>
     THEN Result(slf, <<sent>>,
                 Raise("OutOfProtocolError",
                       <<Str(KeyText(missing[1]) \o MissingSuffix)>>))
     ELSE Result(slf, <<sent>>, Return(resp))

\* verify_token passing the scopes to scope_matches the wrong way round
verify_token_swapped(slf, token, scope, reply) ==
  LET sent == post("/v1/verify", [token |-> token], reply)
      resp == reply.resp
      missing == SelectSeq(<<"user", "scope", "client_id">>,
                           LAMBDA k : k \notin DOMAIN resp)
      missing_attrs == Join([i \in 1..Len(missing) |-> KeyText(missing[i])],
                            <<",", " ">>)
  IN IF ~reply.ok
     THEN Result(slf, <<sent>>, Raise(reply.err, <<>>))
     ELSE IF missing_attrs # <<>>
     THEN Result(slf, <<sent>>,
                 Raise("OutOfProtocolError",
                       <<Str(missing_attrs \o MissingSuffix)>>))
     ELSE IF ~IsNone(scope) /\ ~scope_matches(scope, resp["scope"])
     THEN Result(slf, <<sent>>,
                 Raise("ScopeMismatchError", <<resp["scope"], scope>>))
     ELSE Result(slf, <<sent>>, Return(resp))

verify_token(slf, token, scope, reply) ==
  LET url == "/v1/verify"
      body == [token |-> token]
      sent == post(url, body, reply)
      resp == reply.resp
      missing == SelectSeq(<<"user", "scope", "client_id">>,
                           LAMBDA k : k \notin DOMAIN resp)
      missing_attrs == Join([i \in 1..Len(missing) |-> KeyText(missing[i])],
                            <<",", " ">>)
      authorized_scope == resp["scope"]
  IN IF ~reply.ok
     THEN Result(slf, <<sent>>, Raise(reply.err, <<>>))
     ELSE IF missing_attrs # <<>>
     THEN Result(slf, <<sent>>,
                 Raise("OutOfProtocolError",
                       <<Str(missing_attrs \o MissingSuffix)>>))
     ELSE IF ~IsNone(scope) /\ ~scope_matches(authorized_scope, scope)
     THEN Result(slf, <<sent>>,
                 Raise("ScopeMismatchError", <<authorized_scope, scope>>))
     ELSE Result(slf, <<sent>>, Return(resp))

----------------------------------------------------------------------------
(* Client.get_redirect_url *)

\* get_redirect_url without the escaping of the values
get_redirect_url_unescaped(slf, state, redirect_uri, scope, action, email, client_id_arg) ==
  LET client_id == IF IsNone(client_id_arg) THEN slf.client_id
                   ELSE client_id_arg
      params ==
        << <<k_client_id, client_id>>, <<k_state, state>> >>
        \o (IF IsNone(redirect_uri) THEN <<>>
            ELSE << <<k_redirect_uri, redirect_uri>> >>)
        \o (IF IsNone(scope) THEN <<>> ELSE << <<k_scope, scope>> >>)
        \o (IF IsNone(action) THEN <<>> ELSE << <<k_action, action>> >>)
        \o (IF IsNone(email) THEN <<>> ELSE << <<k_email, email>> >>)
      query_str == Join([i \in 1..Len(params) |->
                           params[i][1] \o <<"=">> \o str(params[i][2])],
                        <<"&">>)
      authorization_url == urlparse(slf.server_url \o AuthorizationPath)
  IN Result(slf, <<>>,
            Return(Str(urlunparse([authorization_url
                                     EXCEPT !.query = query_str]))))

get_redirect_url(slf, state, redirect_uri, scope, action, email, client_id_arg) ==
  LET client_id == IF IsNone(client_id_arg) THEN slf.client_id
                   ELSE client_id_arg
      params ==
        << <<k_client_id, client_id>>, <<k_state, state>> >>
        \o (IF IsNone(redirect_uri) THEN <<>>
            ELSE << <<k_redirect_uri, redirect_uri>> >>)
        \o (IF IsNone(scope) THEN <<>> ELSE << <<k_scope, scope>> >>)
        \o (IF IsNone(action) THEN <<>> ELSE << <<k_action, action>> >>)
        \o (IF IsNone(email) THEN <<>> ELSE << <<k_email, email>> >>)
      query_str == urlencode(params)
      authorization_url == urlparse(slf.server_url \o AuthorizationPath)
  IN Result(slf, <<>>,
            Return(Str(urlunparse([authorization_url
                                     EXCEPT !.query = query_str]))))

----------------------------------------------------------------------------
(* Inputs *)

s_cid == <<"c","i","d">>
s_cid2 == <<"c","i","d","2">>
s_sec == <<"s","e","c">>
s_sec2 == <<"s","e","c","2">>
s_x == <<"h","t","t","p","s",":","/","/","x">>
s_abc123 == <<"a","b","c","1","2","3">>
s_tok == <<"t","o","k">>
s_assertion == <<"a","s","s","e","r","t">>
s_uid == <<"u","i","d">>
s_profile == <<"p","r","o","f","i","l","e">>
s_profile_email == <<"p","r","o","f","i","l","e","/","e","m","a","i","l">>
s_profilex == <<"p","r","o","f","i","l","e","x">>
s_email == <<"e","m","a","i","l">>
s_display_name == <<"d","i","s","p","l","a","y","_","n","a","m","e">>

\* the configurations a client is constructed with
Configs ==
  {Client(cid, sec, url) :
     cid \in {None, Str(s_cid)}, sec \in {None, Str(s_sec)},
     url \in {None, Str(s_x)}}

\* the replies of the token endpoints: a failure of the transport, or a
\* response with or without access_token
TokenReplies ==
  {Failed(e) : e \in TransportErrors}
  \cup {Replied(r) : r \in
         {<<>>,
          [access_token |-> Str(s_tok)],
          [access_token |-> Str(<<>>), scope |-> List(<<>>)],
          [access_token |-> None],
          [redirect |-> Str(s_x)]}}

(* Redirect URLs.  A URL is drawn as a shape: the fields of its query      *)
(* string, each a name with or without "=" and a value, and where the      *)
(* query string stands; the text the server sends is the shape rendered.   *)

Field(n, v, eq, raw) == [name |-> n, value |-> v, eq |-> eq, raw |-> raw]

Fields ==
  {Field(k_code, s_abc123, TRUE, FALSE),
   Field(k_code, <<"a", " ", "=", "b">>, TRUE, FALSE),
   Field(k_code, <<"a", "=", "b">>, TRUE, TRUE),
   Field(k_code, <<>>, TRUE, FALSE),
   Field(k_code, <<>>, FALSE, FALSE),
   Field(k_state, <<"x">>, TRUE, FALSE),
   Field(<<>>, <<>>, FALSE, FALSE)}

\* the text of a field: name=value, escaped unless raw, or the bare name
FieldText(f) ==
  (IF f.raw THEN f.name ELSE quote_plus(f.name))
  \o (IF f.eq
      THEN <<"=">> \o (IF f.raw THEN f.value ELSE quote_plus(f.value))
      ELSE <<>>)

QueryText(fs) == Join([i \in 1..Len(fs) |-> FieldText(fs[i])], <<"&">>)

\* where the fields stand: in no query string, in the query string, in
\* the query string before a fragment, or behind "#" (in the fragment)
Places == {"none", "query", "query#", "#query"}

UrlShapes ==
  {[place |-> "none", fields |-> <<>>]}
  \cup {[place |-> pl, fields |-> fs] :
          pl \in Places \ {"none"}, fs \in SeqsUpTo(Fields, MaxPairs)}

UrlText(u) ==
  s_x \o <<"/">>
  \o (CASE u.place = "none" -> <<>>
        [] u.place = "query" -> <<"?">> \o QueryText(u.fields)
        [] u.place = "query#" ->
             <<"?">> \o QueryText(u.fields) \o <<"#">> \o k_code \o <<"=">>
             \o s_tok
        [] u.place = "#query" -> <<"#", "?">> \o QueryText(u.fields))

RepliedAs(r, intent) == [ok |-> TRUE, resp |-> r, intent |-> intent]

\* the replies of the authorization endpoint to authorize_code
RedirectReplies(shapes) ==
  {Failed(e) : e \in TransportErrors}
  \cup {Replied(r) : r \in {<<>>, [access_token |-> Str(s_tok)]}}
  \cup {RepliedAs([redirect |-> Str(UrlText(u))], u) : u \in shapes}

SomeUrlShapes ==
  {[place |-> "none", fields |-> <<>>],
   [place |-> "query",
    fields |-> <<Field(k_code, s_abc123, TRUE, FALSE),
                 Field(k_state, <<"x">>, TRUE, FALSE)>>],
   [place |-> "query", fields |-> <<Field(k_state, <<"x">>, TRUE, FALSE)>>],
   [place |-> "query", fields |-> <<Field(k_code, <<>>, TRUE, FALSE)>>]}

(* Scope values: a list of tokens, or the tokens joined by blanks *)

ScopeTokens == {s_profile, s_profile_email, s_profilex, s_email}

TokenLists == SeqsUpTo(ScopeTokens, MaxTokens)

ScopeText(l) == Str(Join(l, <<" ">>))

ScopeForms(l) == {List(l), ScopeText(l)}

ScopeValues == UNION {ScopeForms(l) : l \in TokenLists}

SomeScopeValues ==
  {List(<<s_profile>>), List(<<s_display_name>>), ScopeText(<<>>),
   ScopeText(<<s_profile, s_email>>)}

\* the replies of the verification endpoint: a failure of the transport, a
\* response lacking some of user, scope, client_id, or a complete response
\* granting one of the scopes
VerifyReplies(scopes) ==
  {Failed(e) : e \in TransportErrors}
  \cup {Replied(r) : r \in
         {<<>>,
          [user |-> Str(s_uid)],
          [scope |-> List(<<s_profile>>)],
          [client_id |-> Str(s_cid)],
          [user |-> Str(s_uid), scope |-> List(<<s_profile>>)],
          [user |-> Str(s_uid), client_id |-> Str(s_cid)],
          [scope |-> ScopeText(<<s_profile>>), client_id |-> Str(s_cid)],
          [access_token |-> Str(s_tok)]}}
  \cup {Replied([user |-> Str(s_uid), scope |-> g, client_id |-> Str(s_cid)]) :
          g \in scopes}
  \cup {Replied([user |-> Str(s_uid), scope |-> List(<<s_profile>>),
                 client_id |-> Str(s_cid), email |-> Str(s_email)])}

----------------------------------------------------------------------------
(* The state machine *)

\* the state after construction: a client, and no call made yet
InitOf(configs) ==
  /\ self \in configs
  /\ constructed = self
  /\ call = [op |-> "none"]
  /\ requests = <<>>
  /\ outcome = [kind |-> "none"]

Init == InitOf(Configs)

\* one invocation of a method: the call, and what the method did
Invoke(c, res) ==
  /\ call' = c
  /\ self' = res.self
  /\ requests' = res.requests
  /\ outcome' = res.outcome
  /\ UNCHANGED constructed

TradeCode ==
  \E code \in {Str(s_abc123)}, cid \in {None, Str(s_cid2)},
     sec \in {None, Str(s_sec2)}, reply \in TokenReplies :
    Invoke([op |-> "trade_code", code |-> code, client_id |-> cid,
            client_secret |-> sec],
           trade_code(self, code, cid, sec, reply))

AuthorizeCodeOf(shapes) ==
  \E assertion \in {Str(s_assertion)}, scope \in {None, Str(s_profile)},
     cid \in {None, Str(s_cid2)}, reply \in RedirectReplies(shapes) :
    Invoke([op |-> "authorize_code", assertion |-> assertion,
            scope |-> scope, client_id |-> cid],
           authorize_code(self, assertion, scope, cid, reply))

AuthorizeCode == AuthorizeCodeOf(SomeUrlShapes)

AuthorizeToken ==
  \E assertion \in {Str(s_assertion)}, scope \in {None, Str(s_profile)},
     cid \in {None, Str(s_cid2)}, reply \in TokenReplies :
    Invoke([op |-> "authorize_token", assertion |-> assertion,
            scope |-> scope, client_id |-> cid],
           authorize_token(self, assertion, scope, cid, reply))

VerifyTokenOf(granted, requested) ==
  \E token \in {Str(s_tok)}, scope \in {None} \cup requested,
     reply \in VerifyReplies(granted) :
    Invoke([op |-> "verify_token", token |-> token, scope |-> scope],
           verify_token(self, token, scope, reply))

VerifyToken ==
  VerifyTokenOf(SomeScopeValues,
                {ScopeText(<<s_profile_email>>), List(<<s_profile, s_email>>)})

GetRedirectUrlOf(states, uris, scopes, actions, emails) ==
  \E state \in states, redirect_uri \in uris, scope \in scopes,
     action \in actions, email \in emails, cid \in {None, Str(s_cid2)} :
    Invoke([op |-> "get_redirect_url", state |-> state,
            redirect_uri |-> redirect_uri, scope |-> scope,
            action |-> action, email |-> email, client_id |-> cid],
           get_redirect_url(self, state, redirect_uri, scope, action, email,
                            cid))

GetRedirectUrl ==
  GetRedirectUrlOf({Str(<<>>)}, {None}, {None, ScopeText(<<s_profile>>)},
                   {None}, {None, Str(<<"a", "@", "b", ".", "c">>)})

Next ==
  \/ TradeCode
  \/ AuthorizeCode
  \/ AuthorizeToken
  \/ VerifyToken
  \/ GetRedirectUrl

Spec == Init /\ [][Next]_vars

----------------------------------------------------------------------------
(* Specifications of one method on many inputs.  A method reads nothing    *)
(* that an earlier call wrote, so each is run once on a fresh client.      *)

Fresh == call.op = "none"

\* verify_token, on every pair of a granted and a requested scope value
NextVerify == Fresh /\ VerifyTokenOf(ScopeValues, ScopeValues)

SpecVerify == InitOf({Client(Str(s_cid), Str(s_sec), None)}) /\ [][NextVerify]_vars

\* authorize_code, on every redirect URL
NextAuthCode == Fresh /\ AuthorizeCodeOf(UrlShapes)

SpecAuthCode ==
  InitOf({Client(Str(s_cid), Str(s_sec), None)}) /\ [][NextAuthCode]_vars

\* get_redirect_url, on every choice of given and omitted arguments
NextRedirect ==
  Fresh /\ GetRedirectUrlOf(
             {Str(<<>>), Str(<<"s", " ", "t", "&", "u">>)},
             {None, Str(<<"h","t","t","p","s",":","/","/","a","/","c","b",
                          "?","x","=","1">>)},
             {None, ScopeText(<<s_profile, s_email>>)},
             {None, Str(<<"s","i","g","n","i","n">>)},
             {None, Str(<<"a", "@", "b", ".", "c">>)})

SpecRedirect == Init /\ [][NextRedirect]_vars

\* scope_matches applied to a granted and a requested scope value, each
\* given as a list of tokens or as the tokens joined by blanks
ScopeMatches ==
  \E gl \in TokenLists, rl \in TokenLists :
    \E g \in ScopeForms(gl), r \in ScopeForms(rl) :
      Invoke([op |-> "scope_matches", granted |-> g, requested |-> r,
              granted_tokens |-> gl, requested_tokens |-> rl],
             Result(self, <<>>, Return(scope_matches(g, r))))

NextScope == Fresh /\ ScopeMatches

SpecScope ==
  InitOf({Client(Str(s_cid), Str(s_sec), None)}) /\ [][NextScope]_vars

----------------------------------------------------------------------------
(* Properties *)

\* the last call reached the transport and got a response
Answered == requests # <<>> /\ requests[1].reply.ok

\* the response of the last call
Response == requests[1].reply.resp

Raised(e) == outcome.kind = "raise" /\ outcome.exc = e

Returned(v) == outcome.kind = "return" /\ outcome.value = v

Range(q) == {q[i] : i \in 1..Len(q)}

VerifyFields == <<"user", "scope", "client_id">>

\* the fields a verification response lacks, in the fixed order
Lacking(resp) == SelectSeq(VerifyFields, LAMBDA k : k \notin DOMAIN resp)

\* the names a message lists before " missing in OAuth response", read
\* back from its text: the pieces between the commas, each later one after
\* a blank
NamesIn(msg) ==
  LET listed == SubSeq(msg, 1, Len(msg) - Len(MissingSuffix))
      pieces == Split(listed, ",")
  IN [i \in 1..Len(pieces) |->
        IF i > 1 /\ pieces[i] # <<>> /\ Head(pieces[i]) = " "
        THEN Tail(pieces[i]) ELSE pieces[i]]

(* C1: verify_token, on a response lacking any of user, scope, client_id,  *)
(* raises OutOfProtocolError whatever scope was asked for, and the message *)
(* lists exactly the lacking fields, comma-joined, in the order user,      *)
(* scope, client_id.                                                       *)
C1_MissingFieldsNamed ==
  (call.op = "verify_token" /\ Answered /\ Lacking(Response) # <<>>) =>
    /\ Raised("OutOfProtocolError")
    /\ Len(outcome.args) = 1
    /\ EndsWith(outcome.args[1].v, MissingSuffix)
    /\ NamesIn(outcome.args[1].v)
         = [i \in 1..Len(Lacking(Response)) |-> KeyText(Lacking(Response)[i])]
    /\ outcome.args[1].v
         = Join(NamesIn(outcome.args[1].v), <<",", " ">>) \o MissingSuffix

\* a response with only user, to a call that asks for a scope
C1_Witness ==
  /\ call.op = "verify_token" /\ Answered
  /\ DOMAIN Response = {"user"}
  /\ ~IsNone(call.scope)
  /\ Raised("OutOfProtocolError")
  /\ NamesIn(outcome.args[1].v) = <<k_scope, k_client_id>>

(* C2: verify_token, on a response with user, scope and client_id: with a  *)
(* scope argument it returns the response unchanged exactly when           *)
(* scope_matches(granted, requested) holds and otherwise raises            *)
(* ScopeMismatchError(granted, requested); without one it returns the      *)
(* response unchecked.                                                     *)
C2_ScopeChecked ==
  (call.op = "verify_token" /\ Answered /\ Lacking(Response) = <<>>) =>
    IF IsNone(call.scope) THEN Returned(Response)
    ELSE /\ Returned(Response) <=> scope_matches(Response["scope"], call.scope)
         /\ ~scope_matches(Response["scope"], call.scope) =>
              /\ Raised("ScopeMismatchError")
              /\ outcome.args = <<Response["scope"], call.scope>>

\* a granted descendant does not grant its ancestor: profile/email granted,
\* profile requested
C2_Witness ==
  /\ call.op = "verify_token" /\ Answered
  /\ Lacking(Response) = <<>>
  /\ Response["scope"] = List(<<s_profile_email>>)
  /\ call.scope = ScopeText(<<s_profile>>)
  /\ Raised("ScopeMismatchError")
  /\ outcome.args = <<List(<<s_profile_email>>), ScopeText(<<s_profile>>)>>

\* requested token r is granted token g or continues it after a "/"
Satisfies(g, r) == g = r \/ StartsWith(r, g \o <<"/">>)

(* C3: scope_matches(granted, requested) holds exactly when every          *)
(* requested token is a granted token or a granted token followed by "/"   *)
(* and more; so no requested token always matches, and no granted token    *)
(* matches only no requested token.                                        *)
C3_ScopeMatches ==
  call.op = "scope_matches" =>
    LET G == Range(call.granted_tokens)
        R == Range(call.requested_tokens)
    IN /\ outcome.kind = "return"
       /\ outcome.value <=> (\A r \in R : \E g \in G : Satisfies(g, r))
       /\ R = {} => outcome.value
       /\ G = {} => (outcome.value <=> R = {})

\* a character prefix that is no ancestor: profile does not grant profilex
C3_Witness ==
  /\ call.op = "scope_matches"
  /\ call.granted = ScopeText(<<s_profile, s_email>>)
  /\ call.requested = List(<<s_profile_email, s_profilex>>)
  /\ Returned(FALSE)

QueryFields(u) == IF u.place \in {"query", "query#"} THEN u.fields ELSE <<>>

\* the code parameters of the query string, and those with a value
CodeFields(u) == SelectSeq(QueryFields(u), LAMBDA f : f.name = k_code)

CodeValues(u) ==
  SelectSeq(CodeFields(u), LAMBDA f : f.eq /\ f.value # <<>>)

ClientIdOps == {"trade_code", "authorize_code", "authorize_token"}

(* C6: trade_code, authorize_code and authorize_token issue a request only *)
(* with a client_id, from the call or from the configuration; with neither *)
(* they issue none and fail with an error of the caller, which is no       *)
(* OutOfProtocolError and no failure of the transport.                     *)
C6_ClientIdBeforeRequest ==
  call.op \in ClientIdOps =>
    /\ requests # <<>> => ~(IsNone(call.client_id) /\ IsNone(self.client_id))
    /\ (IsNone(call.client_id) /\ IsNone(self.client_id)) =>
         /\ requests = <<>>
         /\ outcome.kind = "raise"
         /\ outcome.exc \notin {"OutOfProtocolError"} \cup TransportErrors

(* C7: when the transport's POST fails, the method ends with that same     *)
(* failure, returns nothing and issues no further request.                 *)
C7_TransportFailure ==
  (requests # <<>> /\ ~requests[1].reply.ok) =>
    /\ outcome.kind = "raise"
    /\ outcome.exc = requests[1].reply.err
    /\ outcome.exc \in TransportErrors
    /\ Len(requests) = 1

\* verify_token with a scope argument, on a failure of the transport
C7_Witness ==
  /\ call.op = "verify_token"
  /\ ~IsNone(call.scope)
  /\ requests # <<>> /\ ~requests[1].reply.ok
  /\ Raised("ConnectionError")

(* C8: a call issues at most one request, however it ends, every request   *)
(* is a POST, and get_redirect_url issues none.                            *)
C8_AtMostOnePost ==
  /\ Len(requests) <= 1
  /\ \A i \in 1..Len(requests) : requests[i].method = "POST"
  /\ call.op = "get_redirect_url" => requests = <<>>

\* an error path after the one request: authorize_code without redirect
C8_Witness ==
  /\ call.op = "authorize_code" /\ Answered
  /\ "redirect" \notin DOMAIN Response
  /\ Raised("OutOfProtocolError")
  /\ Len(requests) = 1

\* the value a call sends for a field it may override
Effective(given, configured) == IF IsNone(given) THEN configured ELSE given

\* the configuration is the constructed one, and the request of the last
\* call carries the call's client_id and client_secret where given, the
\* configured ones where not
ConfigurationKept ==
  /\ self = constructed
  /\ (call.op \in ClientIdOps /\ requests # <<>>) =>
       requests[1].body["client_id"]
         = Effective(call.client_id, constructed.client_id)
  /\ (call.op = "trade_code" /\ requests # <<>>) =>
       requests[1].body["client_secret"]
         = Effective(call.client_secret, constructed.client_secret)

\* a call without a client_id, after a call with one, sends the configured
\* client_id
LaterCallUsesConfiguration ==
  (/\ call.op \in ClientIdOps /\ ~IsNone(call.client_id)
   /\ call'.op \in ClientIdOps /\ IsNone(call'.client_id)
   /\ requests' # <<>>) =>
    requests'[1].body["client_id"] = constructed.client_id

\* verify_token again with the same arguments and the same reply ends as
\* it did before
VerifyTokenRepeats ==
  (/\ call.op = "verify_token" /\ call' = call
   /\ requests # <<>> /\ requests' # <<>>
   /\ requests'[1].reply = requests[1].reply) =>
    outcome' = outcome

(* C9: after any calls, whatever they were given and however they ended,   *)
(* the configured client_id, client_secret and server URL are those of the *)
(* construction; a client_id or client_secret given to a call is used in   *)
(* that call's request only; verify_token repeated with the same inputs    *)
(* and reply gives the same result.                                        *)
C9_ConfigurationImmutable ==
  /\ []ConfigurationKept
  /\ [][LaterCallUsesConfiguration /\ VerifyTokenRepeats]_vars

\* a call that raised, with a client_id and a client_secret of its own
C9_Witness ==
  /\ call.op = "trade_code"
  /\ call.client_id = Str(s_cid2) /\ call.client_secret = Str(s_sec2)
  /\ constructed.client_id = Str(s_cid)
  /\ self = constructed
  /\ requests # <<>>
  /\ requests[1].body["client_id"] = Str(s_cid2)
  /\ Raised("OutOfProtocolError")

\* the parameters get_redirect_url is to send for the last call: client_id
\* and state, then the given ones of redirect_uri, scope, action, email
RedirectParams ==
  << <<k_client_id, Effective(call.client_id, self.client_id)>>,
     <<k_state, call.state>> >>
  \o SelectSeq(<< <<k_redirect_uri, call.redirect_uri>>,
                  <<k_scope, call.scope>>,
                  <<k_action, call.action>>,
                  <<k_email, call.email>> >>,
               LAMBDA kv : ~IsNone(kv[2]))

(* C10: the URL get_redirect_url returns is the authorization endpoint     *)
(* with the query parameters client_id (of the call, else configured),     *)
(* state, then those of redirect_uri, scope, action, email that were       *)
(* given, in that order, each with its value, and no other parameter.      *)
C10_RedirectUrlParameters ==
  call.op = "get_redirect_url" =>
    /\ outcome.kind = "return"
    /\ LET url == outcome.value.v
           q == Find(url, "?")
           fields == Split(SubSeq(url, q + 1, Len(url)), "&")
       IN /\ q > 0
          /\ SubSeq(url, 1, q - 1) = self.server_url \o AuthorizationPath
          /\ Len(fields) = Len(RedirectParams)
          /\ \A i \in 1..Len(fields) :
               /\ Len(Split1(fields[i], "=")) = 2
               /\ Split1(fields[i], "=")[1] = RedirectParams[i][1]
               /\ unquote(Replace(Split1(fields[i], "=")[2], "+", " "))
                    = str(RedirectParams[i][2])

\* redirect_uri and email given, scope and action not, the client_id of
\* the configuration, a state with "&" and a blank in it
C10_Witness ==
  /\ call.op = "get_redirect_url"
  /\ IsNone(call.client_id) /\ self.client_id = Str(s_cid)
  /\ call.state = Str(<<"s", " ", "t", "&", "u">>)
  /\ ~IsNone(call.redirect_uri) /\ IsNone(call.scope)
  /\ IsNone(call.action) /\ ~IsNone(call.email)
  /\ outcome.kind = "return"

====
